---- MODULE Spec2Model ----
\* SimpleVector<Type> (simple_vector.h) on top of ArrayPtr<Type> (array_ptr.h).
\* Two SimpleVector objects, "a" and "b", live on a heap of numbered blocks.
\* Every member function is one action; its effect is computed by an operator
\* of the same name with the suffix F, so that claims can also apply the
\* operations to every reachable state.
\* Element type: a class type with value semantics whose default constructor
\* yields Default and whose moved-from state is Default.
\* Its assignment may throw in the reallocating paths (the ...Throws
\* operators).
\* C++ index i of a buffer is cell i + 1 of the block's sequence.
EXTENDS Integers, Sequences, FiniteSets, TLC

VARIABLES vec, heap, fault, last, limit

vars == <<vec, heap, fault, last, limit>>

\* ---------------------------------------------------------------- bounds
\* Largest array the heap can supply (limit): new Type[n] throws above it.
\* MaxCap with both objects in play, MaxCapOne when only "a" is used.
MaxCap == 2
MaxCapOne == 4
\* Number of blocks the heap can hold at once.
MaxBlocks == 3
\* Element values are 0..MaxVal.
MaxVal == 1
\* Width of size_t and of int, scaled down (the code runs with 64 and 32):
\* what matters is that int is narrower than size_t and signed.
SizeBits == 6
IntBits == 4

Default == 0

Val == 0..MaxVal
Obj == {"a", "b"}
Blocks == 1..MaxBlocks
SizeMod == 2 ^ SizeBits
IntMod == 2 ^ IntBits

Max(x, y) == IF x >= y THEN x ELSE y
Min(x, y) == IF x <= y THEN x ELSE y

\* size_t arithmetic wraps at the width of size_t.
SizeT(n) == n % SizeMod
\* Conversion of a size_t to int: the low IntBits bits, two's complement.
ToInt(n) == LET m == n % IntMod IN IF m >= IntMod \div 2 THEN m - IntMod ELSE m

\* State of a moved-from element.
MovedFrom(v) == Default

\* ---------------------------------------------------------------- heap
FreeBlock == [live |-> FALSE, cells |-> <<>>]
NoUb == "none"
\* m is a memory: [heap, ub]; ub records the first undefined behaviour met.
Mem(h) == [heap |-> h, ub |-> NoUb]
Ub(m, kind) == IF m.ub = NoUb THEN [m EXCEPT !.ub = kind] ELSE m

FreeBlocks(h) == {p \in Blocks : ~h[p].live}
MinOf(S) == CHOOSE p \in S : \A q \in S : p <= q

\* Whether ArrayPtr(size_t n) gets its memory: new Type[n] throws bad_alloc
\* when the heap cannot supply it (ok = FALSE: the allocator refuses).
NewOk(h, n, ok) == n = 0 \/ (ok /\ n <= limit /\ FreeBlocks(h) # {})

\* ArrayPtr(size_t size): nullptr (0) for size 0, else a new array of
\* default-constructed elements.
ArrayPtrNew(h, n) ==
    IF n = 0 THEN [heap |-> h, ptr |-> 0]
    ELSE LET p == MinOf(FreeBlocks(h))
         IN [heap |-> [h EXCEPT ![p] = [live |-> TRUE,
                                        cells |-> [i \in 1..n |-> Default]]],
             ptr |-> p]

\* ~ArrayPtr: delete[] raw_ptr_.
ArrayPtrDelete(m, p) ==
    IF p = 0 THEN m
    ELSE IF m.heap[p].live THEN [m EXCEPT !.heap[p] = FreeBlock]
    ELSE Ub(m, "double_free")

\* ArrayPtr(ArrayPtr&& other): raw_ptr_(std::exchange(other.raw_ptr_, nullptr)).
ArrayPtrMoveCtor(src) == [dst |-> src, src |-> 0]

\* Mutant: the source keeps its pointer.
ArrayPtrMoveAssign_NoExchange(m, dst, src) == [mem |-> m, dst |-> src, src |-> src]

\* ArrayPtr::operator=(ArrayPtr&& other), this # &other: the pointer held
\* before is overwritten, not deleted.
ArrayPtrMoveAssign(m, dst, src) == [mem |-> m, dst |-> src, src |-> 0]

\* ArrayPtr::Release.
ArrayPtrRelease(p) == [ptr |-> 0, ret |-> p]

\* ArrayPtr::operator[]: *(raw_ptr_ + index) is an object of the array only
\* for a live array and index below its extent.
Valid(h, p, i) == p # 0 /\ h[p].live /\ i >= 0 /\ i < Len(h[p].cells)

Load(h, p, i) == IF Valid(h, p, i) THEN h[p].cells[i + 1] ELSE Default

\* p[i] = v
Store(m, p, i, v) ==
    IF Valid(m.heap, p, i) THEN [m EXCEPT !.heap[p].cells[i + 1] = v]
    ELSE Ub(m, "access")

\* dp[di] = sp[si], or dp[di] = std::move(sp[si]) when mv.
Assign(m, dp, di, sp, si, mv) ==
    IF ~Valid(m.heap, sp, si) \/ ~Valid(m.heap, dp, di) THEN Ub(m, "access")
    ELSE LET v == m.heap[sp].cells[si + 1]
             m1 == IF mv THEN [m EXCEPT !.heap[sp].cells[si + 1] = MovedFrom(v)]
                   ELSE m
         IN [m1 EXCEPT !.heap[dp].cells[di + 1] = v]

\* The loops below stop at the first undefined behaviour: what the later
\* iterations do is part of the same undefined outcome.
\* std::copy / std::move(first, last, d_first): front to back.
RECURSIVE CopyFwd(_, _, _, _, _, _, _)
CopyFwd(m, sp, first, lst, dp, dfirst, mv) ==
    IF first >= lst \/ m.ub # NoUb THEN m
    ELSE CopyFwd(Assign(m, dp, dfirst, sp, first, mv),
                 sp, first + 1, lst, dp, dfirst + 1, mv)

\* std::copy_backward / std::move_backward(first, last, d_last): back to front.
RECURSIVE CopyBwd(_, _, _, _, _, _, _)
CopyBwd(m, sp, first, lst, dp, dlast, mv) ==
    IF first >= lst \/ m.ub # NoUb THEN m
    ELSE CopyBwd(Assign(m, dp, dlast - 1, sp, lst - 1, mv),
                 sp, first, lst - 1, dp, dlast - 1, mv)

\* std::fill(p + first, p + last, v), and the loops p[i] = Type().
RECURSIVE Fill(_, _, _, _, _)
Fill(m, p, first, lst, v) ==
    IF first >= lst \/ m.ub # NoUb THEN m
    ELSE Fill(Store(m, p, first, v), p, first + 1, lst, v)

\* ---------------------------------------------------------------- objects
\* A SimpleVector: its three members, and whether it is constructed.
Dead == [alive |-> FALSE, size_ |-> 0, capacity_ |-> 0, data_ |-> 0]
Vector(size, capacity, data) ==
    [alive |-> TRUE, size_ |-> size, capacity_ |-> capacity, data_ |-> data]

\* The world an operation starts from.
W == [vec |-> vec, heap |-> heap]

\* Outcome of an operation: the world, the undefined behaviour met, the
\* exception thrown, the value returned.
Ok(v, m) == [vec |-> v, heap |-> m.heap, ub |-> m.ub, threw |-> "none", ret |-> 0]
OkRet(v, m, r) == [vec |-> v, heap |-> m.heap, ub |-> m.ub, threw |-> "none", ret |-> r]
Threw(w, e) == [vec |-> w.vec, heap |-> w.heap, ub |-> NoUb, threw |-> e, ret |-> 0]

GetSize(w, x) == w.vec[x].size_
GetCapacity(w, x) == w.vec[x].capacity_

\* The elements [0, size) as operator[] reads them.
Contents(w, x) ==
    [i \in 1..w.vec[x].size_ |-> Load(w.heap, w.vec[x].data_, i - 1)]

\* SimpleVector() noexcept = default
CtorDefaultF(w, x) == Ok([w.vec EXCEPT ![x] = Vector(0, 0, 0)], Mem(w.heap))

\* SimpleVector(size_t size, const Type& value); SimpleVector(size_t size)
\* is the same with value = Type().
CtorSizeValueF(w, x, size, value, ok) ==
    IF ~NewOk(w.heap, size, ok) THEN Threw(w, "bad_alloc")
    ELSE LET a == ArrayPtrNew(w.heap, size)
             m == Fill(Mem(a.heap), a.ptr, 0, size, value)
         IN Ok([w.vec EXCEPT ![x] = Vector(size, size, a.ptr)], m)

CtorSizeF(w, x, size, ok) == CtorSizeValueF(w, x, size, Default, ok)

\* Mutant: capacity_ is assigned before the new array is allocated.
ReallocateAndMoveData_CapacityFirst(w, x, new_capacity, ok) ==
    LET s == w.vec[x]
        v1 == [w.vec EXCEPT ![x].capacity_ = new_capacity]
    IN IF ~NewOk(w.heap, new_capacity, ok)
       THEN Threw([vec |-> v1, heap |-> w.heap], "bad_alloc")
       ELSE LET new_data == ArrayPtrNew(w.heap, new_capacity)
                m1 == CopyFwd(Mem(new_data.heap), s.data_, 0,
                              Min(s.size_, new_capacity), new_data.ptr, 0, TRUE)
            IN Ok([v1 EXCEPT ![x].data_ = new_data.ptr], ArrayPtrDelete(m1, s.data_))

\* void ReallocateAndMoveData(size_t new_capacity)
ReallocateAndMoveData(w, x, new_capacity, ok) ==
    LET s == w.vec[x]
    IN IF ~NewOk(w.heap, new_capacity, ok) THEN Threw(w, "bad_alloc")
       ELSE LET new_data == ArrayPtrNew(w.heap, new_capacity)
                elements_count == Min(s.size_, new_capacity)
                m1 == CopyFwd(Mem(new_data.heap), s.data_, 0, elements_count,
                              new_data.ptr, 0, TRUE)
                m2 == ArrayPtrDelete(m1, s.data_)
            IN Ok([w.vec EXCEPT ![x].data_ = new_data.ptr,
                                ![x].capacity_ = new_capacity], m2)

\* Mutant: Reserve also reallocates for new_capacity == capacity_.
ReserveF_AtLeast(w, x, new_capacity, ok) ==
    IF new_capacity >= w.vec[x].capacity_
    THEN ReallocateAndMoveData(w, x, new_capacity, ok)
    ELSE Ok(w.vec, Mem(w.heap))

\* void Reserve(size_t new_capacity)
ReserveF(w, x, new_capacity, ok) ==
    IF new_capacity > w.vec[x].capacity_
    THEN ReallocateAndMoveData(w, x, new_capacity, ok)
    ELSE Ok(w.vec, Mem(w.heap))

\* explicit SimpleVector(ReserveProxyObject wrapper): the members start as
\* 0, 0, nullptr; capacity_ is assigned before Reserve is called.
CtorReserveF(w, x, capacity_to_reserve, ok) ==
    LET v1 == [w.vec EXCEPT ![x] = Vector(0, capacity_to_reserve, 0)]
    IN ReserveF([vec |-> v1, heap |-> w.heap], x, capacity_to_reserve, ok)

\* Mutant: PushBack grows to exactly size + 1 instead of doubling.
PushBackF_GrowByOne(w, x, value, ok) ==
    LET s == w.vec[x]
        new_size == SizeT(s.size_ + 1)
        r == IF new_size > s.capacity_
             THEN ReallocateAndMoveData(w, x, new_size, ok)
             ELSE Ok(w.vec, Mem(w.heap))
    IN IF r.threw # "none" THEN r
       ELSE LET m == Store([heap |-> r.heap, ub |-> r.ub],
                           r.vec[x].data_, s.size_, value)
            IN Ok([r.vec EXCEPT ![x].size_ = new_size], m)

\* void PushBack(const Type& value) / void PushBack(Type&& value)
PushBackF(w, x, value, ok) ==
    LET s == w.vec[x]
        new_size == SizeT(s.size_ + 1)
        new_capacity == IF s.capacity_ # 0
                        THEN Max(new_size, SizeT(2 * s.capacity_)) ELSE 1
        r == IF new_size > s.capacity_
             THEN ReallocateAndMoveData(w, x, new_capacity, ok)
             ELSE Ok(w.vec, Mem(w.heap))
    IN IF r.threw # "none" THEN r
       ELSE LET m == Store([heap |-> r.heap, ub |-> r.ub],
                           r.vec[x].data_, s.size_, value)
            IN Ok([r.vec EXCEPT ![x].size_ = new_size], m)

\* SimpleVector(std::initializer_list<Type> init)
CtorInitListF(w, x, init, ok) ==
    IF ~NewOk(w.heap, Len(init), ok) THEN Threw(w, "bad_alloc")
    ELSE LET a == ArrayPtrNew(w.heap, Len(init))
             m == IF a.ptr = 0 THEN Mem(a.heap)
                  ELSE [heap |-> [a.heap EXCEPT ![a.ptr].cells = init], ub |-> NoUb]
         IN Ok([w.vec EXCEPT ![x] = Vector(Len(init), Len(init), a.ptr)], m)

\* void Clear() noexcept
ClearF(w, x) == Ok([w.vec EXCEPT ![x].size_ = 0], Mem(w.heap))

\* void Resize(size_t new_size)
ResizeF(w, x, new_size, ok) ==
    LET s == w.vec[x]
        \* int new_capacity = std::max(new_size, capacity_ * 2);
        new_capacity == ToInt(Max(new_size, SizeT(s.capacity_ * 2)))
        \* ArrayPtr<Type> new_array(new_capacity); capacity_ = new_capacity;
        \* both convert the int back to size_t.
        extent == SizeT(new_capacity)
    IN IF new_size <= s.size_
       THEN Ok([w.vec EXCEPT ![x].size_ = new_size], Mem(w.heap))
       ELSE IF new_size <= s.capacity_
       THEN Ok([w.vec EXCEPT ![x].size_ = new_size],
               Fill(Mem(w.heap), s.data_, s.size_, new_size, Default))
       ELSE IF ~NewOk(w.heap, extent, ok) THEN Threw(w, "bad_alloc")
       ELSE LET new_array == ArrayPtrNew(w.heap, extent)
                m1 == CopyFwd(Mem(new_array.heap), s.data_, 0, s.size_,
                              new_array.ptr, 0, TRUE)
                m2 == Fill(m1, new_array.ptr, s.size_, new_size, Default)
                m3 == ArrayPtrDelete(m2, s.data_)
            IN Ok([w.vec EXCEPT ![x] = Vector(new_size, extent, new_array.ptr)], m3)

\* Iterator Insert(ConstIterator position, const Type& value), and the
\* Type&& overload when mv; position = begin() + position_offset.
InsertF(w, x, position_offset, value, mv, ok) ==
    LET s == w.vec[x]
        new_size == SizeT(s.size_ + 1)
        new_capacity == IF s.capacity_ # 0
                        THEN Max(new_size, SizeT(2 * s.capacity_)) ELSE 1
    IN IF new_size <= s.capacity_
       THEN LET m1 == CopyBwd(Mem(w.heap), s.data_, position_offset, s.size_,
                              s.data_, s.size_ + 1, mv)
                m2 == Store(m1, s.data_, position_offset, value)
            IN OkRet([w.vec EXCEPT ![x].size_ = new_size], m2, position_offset)
       ELSE IF ~NewOk(w.heap, new_capacity, ok) THEN Threw(w, "bad_alloc")
       ELSE LET new_data == ArrayPtrNew(w.heap, new_capacity)
                m1 == CopyFwd(Mem(new_data.heap), s.data_, 0, position_offset,
                              new_data.ptr, 0, mv)
                m2 == Store(m1, new_data.ptr, position_offset, value)
                m3 == CopyFwd(m2, s.data_, position_offset, s.size_,
                              new_data.ptr, position_offset + 1, mv)
                m4 == ArrayPtrDelete(m3, s.data_)
            IN OkRet([w.vec EXCEPT ![x] = Vector(new_size, new_capacity, new_data.ptr)],
                     m4, position_offset)

\* void PopBack() noexcept
PopBackF(w, x) == Ok([w.vec EXCEPT ![x].size_ = w.vec[x].size_ - 1], Mem(w.heap))

\* Iterator Erase(ConstIterator pos); pos = begin() + erase_index.
EraseF(w, x, erase_index) ==
    LET s == w.vec[x]
        m == CopyFwd(Mem(w.heap), s.data_, erase_index + 1, s.size_,
                     s.data_, erase_index, TRUE)
    IN OkRet([w.vec EXCEPT ![x].size_ = s.size_ - 1], m, erase_index)

\* void swap(SimpleVector& other) noexcept
SwapF(w, x, y) ==
    Ok([w.vec EXCEPT ![x] = w.vec[y], ![y] = w.vec[x]], Mem(w.heap))

\* Mutant: the copy takes the source's members, pointer included.
CtorCopyF_Shallow(w, x, y, ok) == Ok([w.vec EXCEPT ![x] = w.vec[y]], Mem(w.heap))

\* SimpleVector(const SimpleVector& other)
CtorCopyF(w, x, y, ok) ==
    LET other == w.vec[y]
        cp == CtorSizeF(w, x, other.size_, ok)
    IN IF cp.threw # "none" THEN Threw(w, cp.threw)
       ELSE LET m == CopyFwd([heap |-> cp.heap, ub |-> cp.ub], other.data_, 0,
                             other.size_, cp.vec[x].data_, 0, FALSE)
            \* the members take cp's; cp leaves with the nullptr data_ held.
            IN Ok([w.vec EXCEPT ![x] = Vector(cp.vec[x].size_, cp.vec[x].capacity_,
                                              cp.vec[x].data_)],
                  ArrayPtrDelete(m, 0))

\* SimpleVector(SimpleVector&& other) noexcept
CtorMoveF(w, x, y) ==
    LET other == w.vec[y]
        d == ArrayPtrMoveCtor(other.data_)
    IN Ok([w.vec EXCEPT ![x] = Vector(other.size_, other.capacity_, d.dst),
                        ![y] = Vector(0, 0, d.src)], Mem(w.heap))

\* SimpleVector& operator=(const SimpleVector& rhs): copy and swap; temp
\* leaves with the members this held.
CopyAssignF(w, x, y, ok) ==
    IF x = y THEN Ok(w.vec, Mem(w.heap))
    ELSE LET other == w.vec[y]
             temp == CtorSizeF(w, x, other.size_, ok)
         IN IF temp.threw # "none" THEN Threw(w, temp.threw)
            ELSE LET m == CopyFwd([heap |-> temp.heap, ub |-> temp.ub], other.data_,
                                  0, other.size_, temp.vec[x].data_, 0, FALSE)
                 IN Ok([w.vec EXCEPT ![x] = temp.vec[x]],
                       ArrayPtrDelete(m, w.vec[x].data_))

\* SimpleVector& operator=(SimpleVector&& other) noexcept
MoveAssignF(w, x, y) ==
    IF x = y THEN Ok(w.vec, Mem(w.heap))
    ELSE LET other == w.vec[y]
             d == ArrayPtrMoveAssign(Mem(w.heap), w.vec[x].data_, other.data_)
         IN Ok([w.vec EXCEPT ![x] = Vector(other.size_, other.capacity_, d.dst),
                             ![y] = Vector(0, 0, d.src)], d.mem)

\* std::equal(first1, last1, first2) over lhs[i .. size) and rhs[i ..): the
\* first unequal pair ends it; an element outside its array is undefined.
RECURSIVE StdEqual(_, _, _, _, _)
StdEqual(h, lp, i, lsize, rp) ==
    IF i >= lsize THEN [ret |-> TRUE, ub |-> NoUb]
    ELSE IF ~Valid(h, lp, i) \/ ~Valid(h, rp, i) THEN [ret |-> FALSE, ub |-> "access"]
    ELSE IF h[lp].cells[i + 1] # h[rp].cells[i + 1] THEN [ret |-> FALSE, ub |-> NoUb]
    ELSE StdEqual(h, lp, i + 1, lsize, rp)

\* bool operator==(const SimpleVector& lhs, const SimpleVector& rhs)
OpEqF(w, x, y) ==
    LET e == StdEqual(w.heap, w.vec[x].data_, 0, w.vec[x].size_, w.vec[y].data_)
    IN [vec |-> w.vec, heap |-> w.heap, ub |-> e.ub, threw |-> "none", ret |-> e.ret]

\* bool operator!=
OpNeF(w, x, y) == [OpEqF(w, x, y) EXCEPT !.ret = ~OpEqF(w, x, y).ret]

\* A comparison in which a range that ends first is never the lesser one.
RECURSIVE StdLexCompare_NoPrefix(_, _, _, _, _, _)
StdLexCompare_NoPrefix(h, lp, i, lsize, rp, rsize) ==
    IF i >= lsize \/ i >= rsize THEN [ret |-> FALSE, ub |-> NoUb]
    ELSE IF ~Valid(h, lp, i) \/ ~Valid(h, rp, i) THEN [ret |-> FALSE, ub |-> "access"]
    ELSE IF h[lp].cells[i + 1] < h[rp].cells[i + 1] THEN [ret |-> TRUE, ub |-> NoUb]
    ELSE IF h[rp].cells[i + 1] < h[lp].cells[i + 1] THEN [ret |-> FALSE, ub |-> NoUb]
    ELSE StdLexCompare_NoPrefix(h, lp, i + 1, lsize, rp, rsize)

\* std::lexicographical_compare(first1, last1, first2, last2) over
\* lhs[i .. lsize) and rhs[i .. rsize): the first pair that differs decides;
\* when a range ends, the result is that the first ended and the second
\* did not.
RECURSIVE StdLexCompare(_, _, _, _, _, _)
StdLexCompare(h, lp, i, lsize, rp, rsize) ==
    IF i >= lsize \/ i >= rsize THEN [ret |-> i >= lsize /\ i < rsize, ub |-> NoUb]
    ELSE IF ~Valid(h, lp, i) \/ ~Valid(h, rp, i) THEN [ret |-> FALSE, ub |-> "access"]
    ELSE IF h[lp].cells[i + 1] < h[rp].cells[i + 1] THEN [ret |-> TRUE, ub |-> NoUb]
    ELSE IF h[rp].cells[i + 1] < h[lp].cells[i + 1] THEN [ret |-> FALSE, ub |-> NoUb]
    ELSE StdLexCompare(h, lp, i + 1, lsize, rp, rsize)

\* Mutant: operator< by a comparison that ignores which range ended.
OpLtF_NoPrefix(w, x, y) ==
    LET c == StdLexCompare_NoPrefix(w.heap, w.vec[x].data_, 0, w.vec[x].size_,
                                    w.vec[y].data_, w.vec[y].size_)
    IN [vec |-> w.vec, heap |-> w.heap, ub |-> c.ub, threw |-> "none", ret |-> c.ret]

\* bool operator<(const SimpleVector& lhs, const SimpleVector& rhs)
OpLtF(w, x, y) ==
    LET c == StdLexCompare(w.heap, w.vec[x].data_, 0, w.vec[x].size_,
                           w.vec[y].data_, w.vec[y].size_)
    IN [vec |-> w.vec, heap |-> w.heap, ub |-> c.ub, threw |-> "none", ret |-> c.ret]

\* bool operator<=: !(rhs < lhs)
OpLeF(w, x, y) == [OpLtF(w, y, x) EXCEPT !.ret = ~OpLtF(w, y, x).ret]

\* bool operator>: rhs < lhs
OpGtF(w, x, y) == OpLtF(w, y, x)

\* bool operator>=: !(lhs < rhs)
OpGeF(w, x, y) == [OpLtF(w, x, y) EXCEPT !.ret = ~OpLtF(w, x, y).ret]

\* Type& operator[](size_t index) noexcept
IndexF(w, x, index) ==
    LET s == w.vec[x]
    IN [vec |-> w.vec, heap |-> w.heap,
        ub |-> IF Valid(w.heap, s.data_, index) THEN NoUb ELSE "access",
        threw |-> "none", ret |-> Load(w.heap, s.data_, index)]

\* Mutant: the bound test lets index == size_ through.
AtF_OffByOne(w, x, index) ==
    IF index > w.vec[x].size_ THEN Threw(w, "out_of_range")
    ELSE IndexF(w, x, index)

\* Type& At(size_t index)
AtF(w, x, index) ==
    IF index >= w.vec[x].size_ THEN Threw(w, "out_of_range")
    ELSE IndexF(w, x, index)

\* ~SimpleVector: destroys data_.
DtorF(w, x) ==
    Ok([w.vec EXCEPT ![x] = Dead], ArrayPtrDelete(Mem(w.heap), w.vec[x].data_))

\* ------------------------------------------------- element exceptions
\* Type's assignment may throw. In the reallocating paths the new array is
\* a local ArrayPtr: when assignment number fail_at (counted from 0) of the
\* transfer throws, the assignments before it have been made, the local is
\* destroyed during unwinding and the exception leaves the operation.
ThrewAfter(v, m) ==
    [vec |-> v, heap |-> m.heap, ub |-> m.ub, threw |-> "element", ret |-> 0]

\* size_t new_capacity = (capacity_ != 0) ? std::max(new_size, 2u * capacity_) : 1
\* with new_size = size_ + 1, of PushBack and Insert.
GrownCapacity(s) ==
    IF s.capacity_ # 0 THEN Max(SizeT(s.size_ + 1), SizeT(2 * s.capacity_)) ELSE 1

\* The extent Resize(new_size) allocates: the size_t made of
\* int new_capacity = std::max(new_size, capacity_ * 2).
ResizeExtent(s, new_size) == SizeT(ToInt(Max(new_size, SizeT(s.capacity_ * 2))))

\* ReallocateAndMoveData when new_data[fail_at] = std::move(data_[fail_at])
\* throws, fail_at < elements_count.
ReallocateAndMoveDataThrows(w, x, new_capacity, fail_at) ==
    LET s == w.vec[x]
        new_data == ArrayPtrNew(w.heap, new_capacity)
        m1 == CopyFwd(Mem(new_data.heap), s.data_, 0, fail_at, new_data.ptr, 0, TRUE)
    IN ThrewAfter(w.vec, ArrayPtrDelete(m1, new_data.ptr))

\* Reserve(new_capacity), new_capacity > capacity_, element fail_at throws.
ReserveThrowsF(w, x, new_capacity, fail_at) ==
    ReallocateAndMoveDataThrows(w, x, new_capacity, fail_at)

\* PushBack with size_ + 1 > capacity_: a move of ReallocateAndMoveData
\* throws (fail_at < size_), or the reallocation completes and
\* data_[size_] = value throws (fail_at = size_).
PushBackThrowsF(w, x, value, fail_at) ==
    LET s == w.vec[x]
        r == ReallocateAndMoveData(w, x, GrownCapacity(s), TRUE)
    IN IF fail_at < s.size_
       THEN ReallocateAndMoveDataThrows(w, x, GrownCapacity(s), fail_at)
       ELSE ThrewAfter(r.vec, [heap |-> r.heap, ub |-> r.ub])

\* Resize(new_size), new_size > capacity_: assignment fail_at of the moves
\* new_array[i] = std::move(data_[i]), i < size_, followed by the fills
\* new_array[i] = Type(), i < new_size, throws.
ResizeThrowsF(w, x, new_size, fail_at) ==
    LET s == w.vec[x]
        new_array == ArrayPtrNew(w.heap, ResizeExtent(s, new_size))
        m1 == CopyFwd(Mem(new_array.heap), s.data_, 0, Min(fail_at, s.size_),
                      new_array.ptr, 0, TRUE)
        m2 == Fill(m1, new_array.ptr, s.size_, fail_at, Default)
    IN ThrewAfter(w.vec, ArrayPtrDelete(m2, new_array.ptr))

\* Insert with size_ + 1 > capacity_: the assignments into new_data are the
\* elements before position_offset, value, the elements from
\* position_offset on; assignment fail_at of these throws.
InsertThrowsF(w, x, position_offset, mv, fail_at) ==
    LET s == w.vec[x]
        new_data == ArrayPtrNew(w.heap, GrownCapacity(s))
        m1 == CopyFwd(Mem(new_data.heap), s.data_, 0, Min(fail_at, position_offset),
                      new_data.ptr, 0, mv)
        m2 == CopyFwd(m1, s.data_, position_offset, fail_at - 1,
                      new_data.ptr, position_offset + 1, mv)
    IN ThrewAfter(w.vec, ArrayPtrDelete(m2, new_data.ptr))

\* ---------------------------------------------------------------- actions
\* Arguments tried: initializer lists of up to limit elements; sizes up to
\* one above limit, the first size that int holds as a negative number,
\* and the first size above the range of int whose low IntBits bits are not 0.
InitLists == UNION {[1..n -> Val] : n \in 0..limit}
Sizes == 0..limit + 1
ResizeArgs == Sizes \cup {IntMod \div 2, IntMod + 1}

NoFault == [ub |-> NoUb, outcome |-> "none"]
Outcomes == {"crash", "corrupt"}

\* An operation that met undefined behaviour either stops the program where
\* it stands (crash) or goes on with the members as the code assigned them,
\* the invalid accesses having hit memory outside the model (corrupt).
\* A live block that no data_ points to can never be read again: the state
\* keeps that it is live and drops its cells.
Forget(h, v) ==
    [p \in Blocks |->
        IF h[p].live /\ \A x \in Obj : v[x].data_ # p
        THEN [live |-> TRUE, cells |-> <<>>] ELSE h[p]]

Commit(op, r) ==
    /\ fault.ub = NoUb
    /\ last' = [op |-> op, threw |-> r.threw]
    /\ limit' = limit
    /\ \E o \in (IF r.ub = NoUb THEN {"none"} ELSE Outcomes) :
          /\ fault' = [ub |-> r.ub, outcome |-> o]
          /\ vec' = IF o = "crash" THEN vec ELSE r.vec
          /\ heap' = IF o = "crash" THEN heap ELSE Forget(r.heap, r.vec)

CtorDefault(x) ==
    /\ ~vec[x].alive
    /\ Commit("CtorDefault", CtorDefaultF(W, x))

CtorSizeValue(x) ==
    /\ ~vec[x].alive
    /\ \E n \in Sizes, v \in Val, ok \in BOOLEAN :
          Commit("CtorSizeValue", CtorSizeValueF(W, x, n, v, ok))

CtorReserve(x) ==
    /\ ~vec[x].alive
    /\ \E k \in Sizes, ok \in BOOLEAN :
          Commit("CtorReserve", CtorReserveF(W, x, k, ok))

Reserve(x) ==
    /\ vec[x].alive
    /\ \/ \E k \in Sizes, ok \in BOOLEAN :
             Commit("Reserve", ReserveF(W, x, k, ok))
       \/ \E k \in Sizes, fail_at \in 0..limit :
             /\ k > vec[x].capacity_ /\ NewOk(heap, k, TRUE)
             /\ fail_at < Min(vec[x].size_, k)
             /\ Commit("Reserve", ReserveThrowsF(W, x, k, fail_at))

PushBack(x) ==
    /\ vec[x].alive
    /\ \/ \E v \in Val, ok \in BOOLEAN :
             Commit("PushBack", PushBackF(W, x, v, ok))
       \/ \E v \in Val, fail_at \in 0..limit :
             /\ SizeT(vec[x].size_ + 1) > vec[x].capacity_
             /\ NewOk(heap, GrownCapacity(vec[x]), TRUE)
             /\ fail_at <= vec[x].size_
             /\ Commit("PushBack", PushBackThrowsF(W, x, v, fail_at))

CtorInitList(x) ==
    /\ ~vec[x].alive
    /\ \E init \in InitLists, ok \in BOOLEAN :
          Commit("CtorInitList", CtorInitListF(W, x, init, ok))

CtorCopy(x, y) ==
    /\ ~vec[x].alive /\ vec[y].alive
    /\ \E ok \in BOOLEAN :
          Commit("CtorCopy", CtorCopyF(W, x, y, ok))

CtorMove(x, y) ==
    /\ ~vec[x].alive /\ vec[y].alive
    /\ Commit("CtorMove", CtorMoveF(W, x, y))

CopyAssign(x, y) ==
    /\ vec[x].alive /\ vec[y].alive
    /\ \E ok \in BOOLEAN :
          Commit("CopyAssign", CopyAssignF(W, x, y, ok))

MoveAssign(x, y) ==
    /\ vec[x].alive /\ vec[y].alive
    /\ Commit("MoveAssign", MoveAssignF(W, x, y))

Swap(x, y) ==
    /\ vec[x].alive /\ vec[y].alive
    /\ Commit("Swap", SwapF(W, x, y))

Clear(x) ==
    /\ vec[x].alive
    /\ Commit("Clear", ClearF(W, x))

Resize(x) ==
    /\ vec[x].alive
    /\ \/ \E n \in ResizeArgs, ok \in BOOLEAN :
             Commit("Resize", ResizeF(W, x, n, ok))
       \/ \E n \in ResizeArgs, fail_at \in 0..limit :
             /\ n > vec[x].size_ /\ n > vec[x].capacity_
             /\ NewOk(heap, ResizeExtent(vec[x], n), TRUE)
             /\ fail_at < n
             /\ Commit("Resize", ResizeThrowsF(W, x, n, fail_at))

\* assert(position_offset <= size_)
Insert(x) ==
    /\ vec[x].alive
    /\ \/ \E pos \in 0..vec[x].size_, v \in Val, mv \in BOOLEAN, ok \in BOOLEAN :
             Commit("Insert", InsertF(W, x, pos, v, mv, ok))
       \/ \E pos \in 0..vec[x].size_, mv \in BOOLEAN, fail_at \in 0..vec[x].size_ :
             /\ SizeT(vec[x].size_ + 1) > vec[x].capacity_
             /\ NewOk(heap, GrownCapacity(vec[x]), TRUE)
             /\ Commit("Insert", InsertThrowsF(W, x, pos, mv, fail_at))

\* assert(size_ != 0)
PopBack(x) ==
    /\ vec[x].alive /\ vec[x].size_ # 0
    /\ Commit("PopBack", PopBackF(W, x))

\* assert(pos >= begin() && pos < end())
Erase(x) ==
    /\ vec[x].alive
    /\ \E pos \in 0..vec[x].size_ - 1 :
          Commit("Erase", EraseF(W, x, pos))

OpEq(x, y) ==
    /\ vec[x].alive /\ vec[y].alive
    /\ Commit("OpEq", OpEqF(W, x, y))

OpNe(x, y) ==
    /\ vec[x].alive /\ vec[y].alive
    /\ Commit("OpNe", OpNeF(W, x, y))

OpLt(x, y) ==
    /\ vec[x].alive /\ vec[y].alive
    /\ Commit("OpLt", OpLtF(W, x, y))

OpLe(x, y) ==
    /\ vec[x].alive /\ vec[y].alive
    /\ Commit("OpLe", OpLeF(W, x, y))

OpGt(x, y) ==
    /\ vec[x].alive /\ vec[y].alive
    /\ Commit("OpGt", OpGtF(W, x, y))

OpGe(x, y) ==
    /\ vec[x].alive /\ vec[y].alive
    /\ Commit("OpGe", OpGeF(W, x, y))

At(x) ==
    /\ vec[x].alive
    /\ \E index \in Sizes : Commit("At", AtF(W, x, index))

Dtor(x) ==
    /\ vec[x].alive
    /\ Commit("Dtor", DtorF(W, x))

Start ==
    /\ vec = [x \in Obj |-> Dead]
    /\ heap = [p \in Blocks |-> FreeBlock]
    /\ fault = NoFault
    /\ last = [op |-> "none", threw |-> "none"]

\* Both objects in play.
Init == Start /\ limit = MaxCap

Next ==
    \E x \in Obj :
        \/ CtorDefault(x)
        \/ CtorSizeValue(x)
        \/ CtorInitList(x)
        \/ CtorReserve(x)
        \/ Dtor(x)
        \/ Clear(x)
        \/ Resize(x)
        \/ Reserve(x)
        \/ PushBack(x)
        \/ Insert(x)
        \/ PopBack(x)
        \/ Erase(x)
        \/ At(x)
        \/ \E y \in Obj :
              \/ CtorCopy(x, y)
              \/ CtorMove(x, y)
              \/ CopyAssign(x, y)
              \/ MoveAssign(x, y)
              \/ Swap(x, y)
              \/ OpEq(x, y)
              \/ OpNe(x, y)
              \/ OpLt(x, y)
              \/ OpLe(x, y)
              \/ OpGt(x, y)
              \/ OpGe(x, y)

Spec == Init /\ [][Next]_vars

\* Object "a" alone, on a larger heap.
InitOne == Start /\ limit = MaxCapOne

NextOne ==
    \/ CtorDefault("a")
    \/ CtorSizeValue("a")
    \/ CtorInitList("a")
    \/ CtorReserve("a")
    \/ Dtor("a")
    \/ Clear("a")
    \/ Resize("a")
    \/ Reserve("a")
    \/ PushBack("a")
    \/ Insert("a")
    \/ PopBack("a")
    \/ Erase("a")
    \/ At("a")

SpecOne == InitOne /\ [][NextOne]_vars

\* ---------------------------------------------------------------- claims
Sane == fault.ub = NoUb
Alive(x) == vec[x].alive
\* Number of elements of the allocation a data_ owns; none for nullptr.
Extent(h, p) == IF p = 0 THEN 0 ELSE Len(h[p].cells)
World(r) == [vec |-> r.vec, heap |-> r.heap]

\* C1: in every reachable state the capacity of a constructed array is the
\* number of elements of the allocation its data_ owns, and capacity 0 goes
\* with owning no allocation.
C1_CapacityIsExtent ==
    \A x \in Obj :
        Alive(x) =>
            /\ vec[x].capacity_ = Extent(heap, vec[x].data_)
            /\ (vec[x].capacity_ = 0 <=> vec[x].data_ = 0)

\* C2: a == b returns true exactly when the sizes are equal and the elements
\* are pairwise equal, reading no element outside an array; a != b is the
\* negation.
C2_EqualIffSameSequence ==
    \A x, y \in Obj :
        (Sane /\ Alive(x) /\ Alive(y)) =>
            LET e == OpEqF(W, x, y)
                same == /\ GetSize(W, x) = GetSize(W, y)
                        /\ Contents(W, x) = Contents(W, y)
            IN /\ e.ub = NoUb
               /\ e.ret = same
               /\ OpNeF(W, x, y).ret = ~same

\* C3: every live allocation is owned by the data_ of a constructed array
\* (none has become unreachable without being freed), and no delete[] has
\* hit an allocation already freed.
C3_FreedExactlyOnce ==
    /\ fault.ub # "double_free"
    /\ \A p \in Blocks :
          heap[p].live => \E x \in Obj : Alive(x) /\ vec[x].data_ = p

\* C4: GetCapacity() >= GetSize() for every constructed array after every
\* operation.
C4_CapacityAtLeastSize ==
    \A x \in Obj : Alive(x) => vec[x].capacity_ >= vec[x].size_

\* The outcomes of every operation that mutates x alone, over all arguments.
Mutations(x) ==
    {ClearF(W, x)}
    \cup {PushBackF(W, x, v, ok) : v \in Val, ok \in BOOLEAN}
    \cup {ResizeF(W, x, n, ok) : n \in ResizeArgs, ok \in BOOLEAN}
    \cup {ReserveF(W, x, k, ok) : k \in Sizes, ok \in BOOLEAN}
    \cup {InsertF(W, x, q[1], q[2], q[3], q[4]) :
            q \in (0..vec[x].size_) \X Val \X BOOLEAN \X BOOLEAN}
    \cup {EraseF(W, x, pos) : pos \in 0..vec[x].size_ - 1}
    \cup (IF vec[x].size_ # 0 THEN {PopBackF(W, x)} ELSE {})

\* The outcomes of every operation on x that may allocate a new buffer.
Allocating(x) ==
    IF Alive(x)
    THEN {PushBackF(W, x, v, ok) : v \in Val, ok \in BOOLEAN}
         \cup {ResizeF(W, x, n, ok) : n \in ResizeArgs, ok \in BOOLEAN}
         \cup {ReserveF(W, x, k, ok) : k \in Sizes, ok \in BOOLEAN}
         \cup {InsertF(W, x, q[1], q[2], q[3], q[4]) :
                 q \in (0..vec[x].size_) \X Val \X BOOLEAN \X BOOLEAN}
         \cup {CopyAssignF(W, x, y, ok) : y \in {z \in Obj : Alive(z)}, ok \in BOOLEAN}
    ELSE {CtorCopyF(W, x, y, ok) : y \in {z \in Obj : Alive(z)}, ok \in BOOLEAN}

\* C5: an operation whose allocation of the new buffer fails reports
\* bad_alloc and leaves every array and every buffer as they were; and each
\* reallocating operation does report it when the allocator refuses.
C5_AllocFailureKeepsState ==
    Sane =>
      \A x \in Obj :
        /\ \A r \in Allocating(x) :
              r.threw = "bad_alloc" => (World(r) = W /\ r.ub = NoUb)
        /\ Alive(x) =>
              LET s == vec[x]
              IN /\ SizeT(s.size_ + 1) > s.capacity_ =>
                      /\ \A v \in Val : PushBackF(W, x, v, FALSE).threw = "bad_alloc"
                      /\ \A pos \in 0..s.size_, v \in Val, mv \in BOOLEAN :
                            InsertF(W, x, pos, v, mv, FALSE).threw = "bad_alloc"
                 /\ \A n \in ResizeArgs :
                      n > s.capacity_ => ResizeF(W, x, n, FALSE).threw = "bad_alloc"
                 /\ \A k \in Sizes :
                      k > s.capacity_ => ReserveF(W, x, k, FALSE).threw = "bad_alloc"
        /\ \A y \in Obj \ {x} :
              (Alive(y) /\ vec[y].size_ > 0) =>
                  IF Alive(x) THEN CopyAssignF(W, x, y, FALSE).threw = "bad_alloc"
                  ELSE CtorCopyF(W, x, y, FALSE).threw = "bad_alloc"

\* C5 witness: a PushBack on a full, non-empty array has just failed with
\* bad_alloc.
C5_Witness ==
    /\ Sane /\ last.op = "PushBack" /\ last.threw = "bad_alloc"
    /\ \E x \in Obj : Alive(x) /\ vec[x].size_ = 2 /\ vec[x].capacity_ = 2
                      /\ Contents(W, x) = <<1, 1>>

\* C6: a PushBack that returns adds one to the size and appends its value to
\* the contents, with or without reallocation (hence N pushes append N
\* values in push order).
C6_PushBackAppends ==
    \A x \in Obj :
        (Sane /\ Alive(x)) =>
            \A v \in Val, ok \in BOOLEAN :
                LET r == PushBackF(W, x, v, ok)
                IN r.threw = "none" =>
                      /\ r.ub = NoUb
                      /\ GetSize(r, x) = GetSize(W, x) + 1
                      /\ Contents(r, x) = Append(Contents(W, x), v)

\* C7: Insert at index p followed by Erase at index p restores the size and
\* the sequence of elements.
C7_InsertEraseRoundTrip ==
    \A x \in Obj :
        (Sane /\ Alive(x)) =>
            \A pos \in 0..vec[x].size_, v \in Val, mv \in BOOLEAN, ok \in BOOLEAN :
                LET r1 == InsertF(W, x, pos, v, mv, ok)
                    r2 == EraseF(World(r1), x, pos)
                IN r1.threw = "none" =>
                      /\ r1.ub = NoUb /\ r2.ub = NoUb
                      /\ GetSize(r2, x) = GetSize(W, x)
                      /\ Contents(r2, x) = Contents(W, x)

\* n more PushBack calls on x neither allocate nor replace the buffer, and
\* keep the capacity.
RECURSIVE PushesInPlace(_, _, _)
PushesInPlace(w, x, n) ==
    n = 0 \/
    \A v \in Val, ok \in BOOLEAN :
        LET r == PushBackF(w, x, v, ok)
        IN /\ r.threw = "none" /\ r.ub = NoUb
           /\ r.vec[x].data_ = w.vec[x].data_
           /\ r.vec[x].capacity_ = w.vec[x].capacity_
           /\ {p \in Blocks : r.heap[p].live} = {p \in Blocks : w.heap[p].live}
           /\ PushesInPlace(World(r), x, n - 1)

\* C8: an empty array whose capacity Reserve(k) has set to k takes k PushBack
\* calls without reallocation; Reserve keeps the size, and changes nothing
\* when new_capacity <= capacity.
C8_ReserveThenPushes ==
    \A x \in Obj :
        (Sane /\ Alive(x)) =>
            /\ vec[x].size_ = 0 => PushesInPlace(W, x, vec[x].capacity_)
            /\ \A k \in Sizes, ok \in BOOLEAN :
                  LET r == ReserveF(W, x, k, ok)
                  IN /\ GetSize(r, x) = GetSize(W, x)
                     /\ k <= vec[x].capacity_ => (World(r) = W /\ r.threw = "none")
                     /\ (r.threw = "none" /\ k > vec[x].capacity_ /\ vec[x].size_ = 0)
                           => (GetCapacity(r, x) = k /\ PushesInPlace(World(r), x, k))

\* What C9 asks of the outcome r of moving y into x.
Moved(r, x, y) ==
    /\ r.threw = "none" /\ r.ub = NoUb
    /\ r.vec[x].alive
    /\ GetSize(r, x) = GetSize(W, y)
    /\ GetCapacity(r, x) = GetCapacity(W, y)
    /\ Contents(r, x) = Contents(W, y)
    /\ r.vec[y] = Vector(0, 0, 0)
    /\ \A v \in Val, ok \in BOOLEAN :
          LET q == PushBackF(World(r), y, v, ok)
          IN /\ NewOk(r.heap, 1, ok) => q.threw = "none"
             /\ q.threw = "none" =>
                   /\ q.ub = NoUb
                   /\ Contents(q, y) = <<v>>
                   /\ q.vec[x] = r.vec[x]
                   /\ Contents(q, x) = Contents(W, y)

\* C9: move-construction and move-assignment give the destination the
\* source's size, capacity and contents and leave the source with size 0,
\* capacity 0 and no buffer, usable: a PushBack on it works and does not
\* touch the destination. Self-move-assignment changes nothing.
C9_MoveTransfers ==
    Sane =>
      \A x \in Obj :
        /\ Alive(x) => (World(MoveAssignF(W, x, x)) = W /\ MoveAssignF(W, x, x).ub = NoUb)
        /\ \A y \in Obj \ {x} :
              Alive(y) =>
                  IF Alive(x) THEN Moved(MoveAssignF(W, x, y), x, y)
                  ELSE Moved(CtorMoveF(W, x, y), x, y)

\* C9 witness: a move-assignment has just emptied one array and left the
\* other with two elements.
C9_Witness ==
    /\ Sane /\ last.op = "MoveAssign"
    /\ \E x \in Obj, y \in Obj :
          /\ x # y /\ Alive(x) /\ Alive(y)
          /\ vec[y] = Vector(0, 0, 0)
          /\ vec[x].size_ = 2 /\ Contents(W, x) = <<0, 1>>

\* What C10 asks of the outcome r of copying y into x.
Copied(r, x, y) ==
    r.threw = "none" =>
        /\ r.ub = NoUb
        /\ r.vec[x].alive
        /\ r.vec[x].data_ # 0 => r.vec[x].data_ # r.vec[y].data_
        /\ GetSize(r, x) = GetSize(W, y)
        /\ Contents(r, x) = Contents(W, y)
        /\ GetCapacity(r, x) = GetSize(W, y)
        /\ OpEqF(World(r), x, y).ret /\ OpEqF(World(r), x, y).ub = NoUb
        /\ OpEqF(World(r), y, x).ret /\ OpEqF(World(r), y, x).ub = NoUb
        /\ r.vec[y] = vec[y]
        /\ Contents(r, y) = Contents(W, y)

\* C10: a copy has its own buffer, the source's size and elements (it
\* compares equal to the source) and capacity equal to the source's size;
\* and no mutation of one array changes the members or the buffer of the
\* other, so the copy and the source stay independent.
C10_CopyIsDeep ==
    Sane =>
      \A x \in Obj : \A y \in Obj \ {x} :
        /\ Alive(y) =>
              \A ok \in BOOLEAN :
                  IF Alive(x) THEN Copied(CopyAssignF(W, x, y, ok), x, y)
                  ELSE Copied(CtorCopyF(W, x, y, ok), x, y)
        /\ (Alive(x) /\ Alive(y)) =>
              /\ vec[x].data_ # 0 => vec[x].data_ # vec[y].data_
              /\ \A r \in Mutations(x) :
                    /\ r.vec[y] = vec[y]
                    /\ vec[y].data_ # 0 => r.heap[vec[y].data_] = heap[vec[y].data_]

\* C10 witness: a copy construction has just produced an array with two
\* elements next to its source, which has room to spare.
C10_Witness ==
    /\ Sane /\ last.op = "CtorCopy" /\ last.threw = "none"
    /\ \E x \in Obj, y \in Obj :
          /\ x # y /\ Alive(x) /\ Alive(y)
          /\ Contents(W, x) = <<1, 0>> /\ Contents(W, y) = <<1, 0>>
          /\ vec[x].data_ # vec[y].data_

\* C11: At(i) throws out_of_range for every i >= size, also below the
\* capacity, and changes nothing; for i < size it does not throw and
\* returns the element operator[](i) returns.
C11_AtChecksSize ==
    \A x \in Obj :
        (Sane /\ Alive(x)) =>
            \A i \in 0..(vec[x].capacity_ + limit + 1) :
                LET r == AtF(W, x, i)
                IN IF i >= vec[x].size_
                   THEN r.threw = "out_of_range" /\ World(r) = W /\ r.ub = NoUb
                   ELSE /\ r.threw = "none" /\ r.ub = NoUb /\ World(r) = W
                        /\ r.ret = IndexF(W, x, i).ret
                        /\ r.ret = Contents(W, x)[i + 1]

\* C11 witness: At has just thrown on the only array, which holds one
\* element in a buffer of two.
C11_Witness ==
    /\ Sane /\ last.op = "At" /\ last.threw = "out_of_range"
    /\ ~Alive("b") /\ Alive("a")
    /\ vec["a"].size_ = 1 /\ vec["a"].capacity_ = 2 /\ vec["a"].data_ # 0

\* C12: Resize(n) that returns leaves size n, keeps the elements at
\* [0, min(n, old size)) and makes every element at [old size, n) the
\* default value, whether it shrinks, grows in place or reallocates, and
\* whatever the slots beyond the old size held before.
C12_ResizeKeepsAndFills ==
    \A x \in Obj :
        (Sane /\ Alive(x)) =>
            \A n \in ResizeArgs :
                LET r == ResizeF(W, x, n, TRUE)
                    old == Contents(W, x)
                IN r.threw = "none" =>
                      /\ r.ub = NoUb
                      /\ GetSize(World(r), x) = n
                      /\ Contents(World(r), x) =
                            [i \in 1..n |-> IF i <= Len(old) THEN old[i] ELSE Default]

RECURSIVE FloorLog2(_)
FloorLog2(n) == IF n <= 1 THEN 0 ELSE 1 + FloorLog2(n \div 2)

RECURSIVE CeilLog2(_)
CeilLog2(n) == IF n <= 1 THEN 0 ELSE 1 + CeilLog2((n + 1) \div 2)

\* n PushBack calls on x starting in w: the world they end in, how many of
\* them replaced the buffer, and whether all of them returned normally.
RECURSIVE PushRun(_, _, _)
PushRun(w, x, n) ==
    IF n = 0 THEN [w |-> w, reallocs |-> 0, ok |-> TRUE]
    ELSE LET before == PushRun(w, x, n - 1)
             r == PushBackF(before.w, x, Default, TRUE)
         IN [w |-> World(r),
             reallocs |-> before.reallocs +
                 (IF r.vec[x].data_ # before.w.vec[x].data_ THEN 1 ELSE 0),
             ok |-> before.ok /\ r.threw = "none" /\ r.ub = NoUb]

\* The capacity PushBack and Insert leave: 1 from capacity 0,
\* max(size + 1, 2 * capacity) from a full buffer, unchanged otherwise.
GrowthRule(x) ==
    LET grown == IF vec[x].capacity_ = 0 THEN 1
                 ELSE Max(vec[x].size_ + 1, 2 * vec[x].capacity_)
        expected == IF vec[x].size_ < vec[x].capacity_
                    THEN vec[x].capacity_ ELSE grown
    IN /\ \A v \in Val :
            LET r == PushBackF(W, x, v, TRUE)
            IN (r.threw = "none" /\ r.ub = NoUb) => GetCapacity(r, x) = expected
       /\ \A v \in Val, p \in 0..vec[x].size_, mv \in BOOLEAN :
            LET r == InsertF(W, x, p, v, mv, TRUE)
            IN (r.threw = "none" /\ r.ub = NoUb) => GetCapacity(r, x) = expected

\* Starting from the empty default-constructed array x, every run of
\* N >= 1 PushBack calls that succeeds ends with the smallest power of two
\* >= N as capacity and has replaced the buffer at most Bound(N) times;
\* bound is "floor" or "ceil" for floor(log2 N) + 1 and ceil(log2 N) + 1.
PushGrowth(x, bound) ==
    vec[x] = Vector(0, 0, 0) =>
        \A N \in 1..limit :
            LET run == PushRun(W, x, N)
            IN run.ok =>
                  /\ GetCapacity(run.w, x) = 2 ^ CeilLog2(N)
                  /\ run.reallocs <=
                        (IF bound = "floor" THEN FloorLog2(N) ELSE CeilLog2(N)) + 1

\* C13 as stated: the growth rule of PushBack and Insert holds, and N >= 1
\* PushBack calls from the empty default-constructed array end with the
\* smallest power of two >= N as capacity after at most floor(log2 N) + 1
\* reallocations.
C13_GrowthFloorBound ==
    \A x \in Obj :
        (Sane /\ Alive(x)) => (GrowthRule(x) /\ PushGrowth(x, "floor"))

\* C13 amended: the same, with at most ceil(log2 N) + 1 reallocations
\* (three pushes reallocate three times: capacities 1, 2, 4).
C13_GrowthCeilBound ==
    \A x \in Obj :
        (Sane /\ Alive(x)) => (GrowthRule(x) /\ PushGrowth(x, "ceil"))

\* C13 witness: the third PushBack on the only array has just doubled its
\* buffer from 2 to 4.
C13_Witness ==
    /\ Sane /\ last.op = "PushBack" /\ last.threw = "none"
    /\ ~Alive("b") /\ Alive("a")
    /\ vec["a"].size_ = 3 /\ vec["a"].capacity_ = 4 /\ vec["a"].data_ # 0

\* Lexicographic order of sequences: s and t agree on a prefix of length k
\* after which s has ended and t has not, or s has the smaller element.
LexLess(s, t) ==
    \E k \in 0..Min(Len(s), Len(t)) :
        /\ \A i \in 1..k : s[i] = t[i]
        /\ \/ k = Len(s) /\ k < Len(t)
           \/ k < Len(s) /\ k < Len(t) /\ s[k + 1] < t[k + 1]

\* C14: a < b is the lexicographic comparison of the element sequences,
\* and a > b, a <= b, a >= b are b < a, !(b < a), !(a < b); no comparison
\* reads outside an array.
C14_OrderIsLexicographic ==
    \A x, y \in Obj :
        (Sane /\ Alive(x) /\ Alive(y)) =>
            LET s == Contents(W, x)
                t == Contents(W, y)
            IN /\ OpLtF(W, x, y).ub = NoUb /\ OpLtF(W, y, x).ub = NoUb
               /\ OpLtF(W, x, y).ret = LexLess(s, t)
               /\ OpGtF(W, x, y).ret = OpLtF(W, y, x).ret
               /\ OpGtF(W, x, y).ret = LexLess(t, s)
               /\ OpLeF(W, x, y).ret = ~OpLtF(W, y, x).ret
               /\ OpGeF(W, x, y).ret = ~OpLtF(W, x, y).ret
               /\ OpLtF(W, x, y).vec = vec /\ OpLtF(W, x, y).heap = heap

\* C14 witness: a < b has just been evaluated with a a proper, non-empty
\* prefix of b.
C14_Witness ==
    /\ Sane /\ last.op = "OpLt"
    /\ Alive("a") /\ Alive("b")
    /\ GetSize(W, "a") = 1 /\ GetSize(W, "b") = 2
    /\ Contents(W, "a")[1] = Contents(W, "b")[1]
    /\ OpLtF(W, "a", "b").ret /\ ~OpLtF(W, "b", "a").ret

\* C15: Insert at index p <= size that returns yields s[0..p) ++ <<v>> ++
\* s[p..size), size + 1 and the position p, in place or reallocating; Erase
\* at index p < size yields s without its element p, size - 1 and the
\* position p, which is end() when the last element went.
C15_InsertEraseContents ==
    \A x \in Obj :
        (Sane /\ Alive(x)) =>
            LET s == Contents(W, x)
            IN /\ \A p \in 0..Len(s), v \in Val, mv \in BOOLEAN :
                     LET r == InsertF(W, x, p, v, mv, TRUE)
                     IN r.threw = "none" =>
                           /\ r.ub = NoUb
                           /\ GetSize(r, x) = Len(s) + 1
                           /\ Contents(r, x) =
                                 SubSeq(s, 1, p) \o <<v>> \o SubSeq(s, p + 1, Len(s))
                           /\ r.ret = p
                           /\ IndexF(World(r), x, r.ret).ret = v
               /\ \A p \in 0..(Len(s) - 1) :
                     LET r == EraseF(W, x, p)
                     IN /\ r.threw = "none" /\ r.ub = NoUb
                        /\ GetSize(r, x) = Len(s) - 1
                        /\ Contents(r, x) =
                              SubSeq(s, 1, p) \o SubSeq(s, p + 2, Len(s))
                        /\ r.ret = p
                        /\ (p = Len(s) - 1 => r.ret = GetSize(r, x))

\* The outcomes of the reallocating operations on x in which the transfer
\* of an element into the new buffer throws partway.
TransferThrows(x) ==
    LET s == vec[x]
        grows == SizeT(s.size_ + 1) > s.capacity_ /\ NewOk(heap, GrownCapacity(s), TRUE)
    IN {ReserveThrowsF(W, x, k, f) :
            k \in {c \in Sizes : c > s.capacity_ /\ NewOk(heap, c, TRUE)},
            f \in 0..(s.size_ - 1)}
       \cup {ResizeThrowsF(W, x, n, f) :
               n \in {c \in Sizes : c > s.capacity_ /\ NewOk(heap, ResizeExtent(s, c), TRUE)},
               f \in 0..(s.size_ - 1)}
       \cup (IF grows
             THEN {PushBackThrowsF(W, x, v, f) : v \in Val, f \in 0..(s.size_ - 1)}
                  \cup {InsertThrowsF(W, x, q[1], q[2], q[3]) :
                          q \in (0..s.size_) \X BOOLEAN \X (0..s.size_)}
             ELSE {})

\* C16: when the transfer of an element into the new buffer throws partway
\* through PushBack, Insert, Resize or Reserve, the array keeps its buffer,
\* size and capacity, and every element at [0, size) keeps its value.
C16_TransferFailureKeepsElements ==
    \A x \in Obj :
        (Sane /\ Alive(x)) =>
            \A r \in TransferThrows(x) :
                /\ r.threw = "element" /\ r.ub = NoUb
                /\ r.vec[x] = vec[x]
                /\ Extent(r.heap, r.vec[x].data_) = Extent(heap, vec[x].data_)
                /\ Contents(World(r), x) = Contents(W, x)

\* The outcomes of the operations on x that fit in its capacity, over all
\* arguments, whether or not the allocator would supply memory.
InCapacity(x) ==
    LET s == vec[x]
    IN {ClearF(W, x)}
       \cup (IF s.size_ # 0 THEN {PopBackF(W, x)} ELSE {})
       \cup {EraseF(W, x, pos) : pos \in 0..(s.size_ - 1)}
       \cup {ResizeF(W, x, n, ok) : n \in 0..s.capacity_, ok \in BOOLEAN}
       \cup {ReserveF(W, x, k, ok) : k \in 0..s.capacity_, ok \in BOOLEAN}
       \cup (IF s.size_ < s.capacity_
             THEN {PushBackF(W, x, v, ok) : v \in Val, ok \in BOOLEAN}
                  \cup {InsertF(W, x, q[1], q[2], q[3], q[4]) :
                          q \in (0..s.size_) \X Val \X BOOLEAN \X BOOLEAN}
             ELSE {})

\* C17: Clear, PopBack, Erase, Resize(n <= capacity), Insert and PushBack
\* with size < capacity and Reserve(n <= capacity) do not allocate (they
\* cannot fail for lack of memory, and the set of live buffers stays), keep
\* the owned buffer and keep the capacity; Clear sets the size to 0 and
\* leaves every stored slot as it was.
C17_InCapacityKeepsBuffer ==
    \A x \in Obj :
        (Sane /\ Alive(x)) =>
            /\ \A r \in InCapacity(x) :
                  /\ r.threw = "none"
                  /\ {p \in Blocks : r.heap[p].live} = {p \in Blocks : heap[p].live}
                  /\ r.vec[x].data_ = vec[x].data_
                  /\ GetCapacity(r, x) = GetCapacity(W, x)
                  /\ \A y \in Obj \ {x} : r.vec[y] = vec[y]
            /\ GetSize(ClearF(W, x), x) = 0
            /\ ClearF(W, x).heap = heap

\* C17 witness: Clear has just emptied the only array, whose buffer of two
\* still stores a non-default value.
C17_Witness ==
    /\ Sane /\ last.op = "Clear"
    /\ ~Alive("b") /\ Alive("a")
    /\ vec["a"].size_ = 0 /\ vec["a"].capacity_ = 2 /\ vec["a"].data_ # 0
    /\ heap[vec["a"].data_].live
    /\ heap[vec["a"].data_].cells[1] # Default

\* The undefined behaviour met, if any, by each operation whose
\* preconditions hold in this state, over all arguments.
UbsMet ==
    LET live == {z \in Obj : Alive(z)}
    IN UNION {{r.ub : r \in Mutations(x) \cup Allocating(x)} : x \in live}
       \cup UNION {{AtF(W, x, i).ub : i \in Sizes} : x \in live}
       \cup UNION {{IndexF(W, x, i).ub : i \in 0..(vec[x].size_ - 1)} : x \in live}
       \cup UNION {{OpEqF(W, q[1], q[2]).ub, OpNeF(W, q[1], q[2]).ub,
                    OpLtF(W, q[1], q[2]).ub, OpLeF(W, q[1], q[2]).ub,
                    OpGtF(W, q[1], q[2]).ub, OpGeF(W, q[1], q[2]).ub,
                    SwapF(W, q[1], q[2]).ub, MoveAssignF(W, q[1], q[2]).ub} :
                   q \in live \X live}

\* C18: no operation called within its preconditions, in any reachable
\* state, reads or writes an element through a null data_ or at an offset
\* that is not below the extent of the buffer.
C18_AccessesInsideBuffer ==
    Sane => "access" \notin UbsMet

\* C19: Resize(new_size) with new_size > capacity that returns sets the
\* capacity to max(new_size, 2 * capacity), the int intermediate losing
\* nothing: the capacity is >= new_size and is the extent of the new buffer.
C19_ResizeCapacityExact ==
    \A x \in Obj :
        (Sane /\ Alive(x)) =>
            \A n \in ResizeArgs :
                LET r == ResizeF(W, x, n, TRUE)
                IN (n > vec[x].capacity_ /\ r.threw = "none") =>
                      /\ GetCapacity(r, x) = Max(n, 2 * vec[x].capacity_)
                      /\ GetCapacity(r, x) >= n
                      /\ GetCapacity(r, x) = Extent(r.heap, r.vec[x].data_)

\* C20: for every pair of arrays exactly one of a < b, a == b, a > b is
\* true, and a <= b is the same as a < b or a == b.
C20_Trichotomy ==
    \A x, y \in Obj :
        (Sane /\ Alive(x) /\ Alive(y)) =>
            LET lt == OpLtF(W, x, y).ret
                eq == OpEqF(W, x, y).ret
                gt == OpGtF(W, x, y).ret
            IN /\ lt \/ eq \/ gt
               /\ ~(lt /\ eq) /\ ~(lt /\ gt) /\ ~(eq /\ gt)
               /\ OpLeF(W, x, y).ret = (lt \/ eq)

====
